---- MODULE Spec2Model ----
(***************************************************************************)
(* A model of src/src/inversion.py (the Newton-Raphson solver, the three   *)
(* unfinished solvers, the signature validation and the command-line       *)
(* script) and of the call made by src/src/test_inversion_funcs.py.        *)
(*                                                                         *)
(* Python floats are modelled by exact rationals <<n, d>> (d > 0, lowest   *)
(* terms): the solver's control flow depends only on comparisons and on    *)
(* the arithmetic y - fy/dfy, which the rationals compute without the      *)
(* rounding of a float.                                                    *)
(***************************************************************************)
EXTENDS Integers, Sequences, FiniteSets, TLC

(* ------------------------------ bounds -------------------------------- *)

\* The largest -max_iter the model passes to a solver.
MaxIter == 2

\* The largest number of required positional parameters of a user function.
MaxRequired == 2

(* ---------------------------- rationals ------------------------------- *)

Abs(n) == IF n < 0 THEN -n ELSE n

RECURSIVE GCD(_, _)
GCD(a, b) == IF b = 0 THEN a ELSE GCD(b, a % b)

\* The element of a one-element set. The arithmetic below binds each operand
\* once, as an element of a singleton, so that an operand that is itself an
\* expression is computed once.
Only(S) == CHOOSE x \in S : TRUE

\* The rational n/d in lowest terms with a positive denominator.
Rat(n, d) ==
    Only({ LET g == GCD(Abs(a), Abs(b))
               s == IF b < 0 THEN -1 ELSE 1
           IN  <<(s * a) \div g, (s * b) \div g>> : a \in {n}, b \in {d} })

Int2Rat(n) == <<n, 1>>

Zero == <<0, 1>>

RNeg(p) == Only({ <<-a[1], a[2]>> : a \in {p} })

RAdd(p, q) ==
    Only({ LET g == GCD(a[2], b[2])
           IN  Rat(a[1] * (b[2] \div g) + b[1] * (a[2] \div g), (a[2] \div g) * b[2])
           : a \in {p}, b \in {q} })

RSub(p, q) == RAdd(p, RNeg(q))

RMul(p, q) ==
    Only({ LET g1 == GCD(Abs(a[1]), b[2])
               g2 == GCD(Abs(b[1]), a[2])
           IN  IF a[1] = 0 \/ b[1] = 0 THEN Zero
               ELSE <<(a[1] \div g1) * (b[1] \div g2), (a[2] \div g2) * (b[2] \div g1)>>
           : a \in {p}, b \in {q} })

\* p / q for q # 0.
RDiv(p, q) == Only({ RMul(p, Rat(b[2], b[1])) : b \in {q} })

RAbs(p) == Only({ <<Abs(a[1]), a[2]>> : a \in {p} })

RLt(p, q) == \E a \in {p}, b \in {q} : a[1] * b[2] < b[1] * a[2]

RLe(p, q) == \E a \in {p}, b \in {q} : a[1] * b[2] <= b[1] * a[2]

\* A local variable that no assignment has bound yet.
Unbound == <<0, 0>>

(* ------------------------- user functions ----------------------------- *)

\* The value of the polynomial coef[1] + coef[2]*y + ... at y, by Horner's
\* rule from the coefficient at index k down.
RECURSIVE Horner(_, _, _, _)
Horner(coef, y, k, acc) ==
    IF k = 0 THEN acc
    ELSE Horner(coef, y, k - 1, RAdd(RMul(acc, y), Int2Rat(coef[k])))

PolyEval(coef, y) == Horner(coef, y, Len(coef), Zero)

\* A user function of one float: a polynomial that raises for an argument
\* below lo when bounded is TRUE (a square root or a logarithm inside it).
Fun(coef, bounded, lo) == [coef |-> coef, bounded |-> bounded, lo |-> lo]

\* f(y) = y^2 - 2 and df(y) = 2y.
Sqrt2 ==
    [f  |-> Fun(<<-2, 0, 1>>, FALSE, Zero),
     df |-> Fun(<<0, 2>>, FALSE, Zero),
     bracket |-> <<Int2Rat(0), Int2Rat(2)>>]

\* f(x) = (x+3)(x-1)^2 = x^3 + x^2 - 5x + 3 of the test script, with its
\* analytic derivative 3x^2 + 2x - 5 (the script's own df has no return
\* statement and is not passed on) and the bracket (-4, 4/3) the script passes.
Cubic ==
    [f  |-> Fun(<<3, -5, 1, 1>>, FALSE, Zero),
     df |-> Fun(<<-5, 2, 3>>, FALSE, Zero),
     bracket |-> <<Int2Rat(-4), Rat(4, 3)>>]

\* f(y) = 2y - 3 and df(y) = 2.
Linear ==
    [f  |-> Fun(<<-3, 2>>, FALSE, Zero),
     df |-> Fun(<<2>>, FALSE, Zero),
     bracket |-> <<Int2Rat(0), Int2Rat(2)>>]

\* y^2 - 2 with an f that raises below -29/20: the root -sqrt(2) is in its
\* domain, and the Newton step from -1 to -3/2 leaves it.
PartialF ==
    [f  |-> Fun(<<-2, 0, 1>>, TRUE, Rat(-29, 20)),
     df |-> Fun(<<0, 2>>, FALSE, Zero),
     bracket |-> <<Rat(-29, 20), Int2Rat(0)>>]

\* y^2 - 2 with a df that raises below -29/20.
PartialDf ==
    [f  |-> Fun(<<-2, 0, 1>>, FALSE, Zero),
     df |-> Fun(<<0, 2>>, TRUE, Rat(-29, 20)),
     bracket |-> <<Rat(-29, 20), Int2Rat(0)>>]

Problems == {Sqrt2, Cubic, Linear, PartialF, PartialDf}

\* The positional parameters of a user function: req without a default, then
\* opt with one.
Signatures == [req : 0 .. MaxRequired, opt : 0 .. 1]

\* The outcome of the call fun(y) of a function with signature sig.
CallOutcome(fun, sig, y) ==
    IF ~(sig.req <= 1 /\ 1 <= sig.req + sig.opt)
      THEN [raises |-> "TypeError", value |-> Unbound]
    ELSE IF fun.bounded /\ RLt(y, fun.lo)
      THEN [raises |-> "DomainError", value |-> Unbound]
    ELSE [raises |-> "none", value |-> PolyEval(fun.coef, y)]

(* ------------------------------ inputs -------------------------------- *)

Y0s == {Int2Rat(-4), Int2Rat(-1), Int2Rat(0), Int2Rat(1), Int2Rat(2)}

Tols == {Rat(1, 100), Rat(1, 2), Int2Rat(2)}

Entries ==
    {"main", "newton_raphson", "brent_dekker", "secant", "full_inversion",
     "validate_function_signature"}

\* What the file given on the command line holds.
Files ==
    {[exists |-> FALSE, defines |-> {}],
     [exists |-> TRUE, defines |-> {"df"}],
     [exists |-> TRUE, defines |-> {"f"}],
     [exists |-> TRUE, defines |-> {"f", "df"}]}

WellFormedFile == [exists |-> TRUE, defines |-> {"f", "df"}]

(* ------------------------------- state -------------------------------- *)

VARIABLES
    entry,      \* the function called, or "main" for the script
    pc,         \* the line about to run, or "returned", "raised", "exited"
    file,       \* the function file of the command line
    prob,       \* the user's f and df (and the bracket the caller knows)
    sigF, sigDf,\* the signatures of f and df
    bracketArg, \* TRUE when the caller passes the bracket as an argument
    y0, tol, max_iter,          \* the solver's arguments
    y, y_new, err, fy, dfy,     \* newton_raphson's locals
    it,         \* the iterations the for loop has started (the loop variable is it - 1)
    evals,      \* the calls of f and df made so far
    result,     \* the value returned to the caller
    exc,        \* the exception that ended the call
    out         \* what was printed or warned

inputs == <<entry, file, prob, sigF, sigDf, bracketArg, y0, tol, max_iter>>

locals == <<y, y_new, err, fy, dfy, it>>

vars == <<entry, pc, file, prob, sigF, sigDf, bracketArg, y0, tol, max_iter,
          y, y_new, err, fy, dfy, it, evals, result, exc, out>>

NoResult == [kind |-> "none", root |-> Unbound, err |-> Unbound, iters |-> 0]

NoneValue == [kind |-> "None", root |-> Unbound, err |-> Unbound, iters |-> 0]

FloatValue(r) == [kind |-> "float", root |-> r, err |-> Unbound, iters |-> 0]

TupleValue(r, e, n) == [kind |-> "tuple", root |-> r, err |-> e, iters |-> n]

NoExc == [kind |-> "none", iters |-> 0, prec |-> Unbound]

\* An exception with no numbers in its message.
Exc(kind) == [kind |-> kind, iters |-> 0, prec |-> Unbound]

FirstLine(e) ==
    CASE e = "main" -> "main_146"
      [] e = "newton_raphson" -> "nr_105"
      [] e = "brent_dekker" -> "bd_124"
      [] e = "secant" -> "sec_128"
      [] e = "full_inversion" -> "fi_132"
      [] e = "validate_function_signature" -> "vfs_78"

Init ==
    /\ entry \in Entries
    /\ pc = FirstLine(entry)
    /\ file \in (IF entry = "main" THEN Files ELSE {WellFormedFile})
    /\ prob \in Problems
    /\ sigF \in Signatures
    /\ sigDf \in Signatures
    /\ bracketArg \in (IF entry \in {"brent_dekker", "full_inversion"} THEN BOOLEAN ELSE {FALSE})
    /\ y0 \in Y0s
    /\ tol \in Tols
    /\ max_iter \in 0 .. MaxIter
    /\ y = Unbound /\ y_new = Unbound /\ err = Unbound
    /\ fy = Unbound /\ dfy = Unbound
    /\ it = 0
    /\ evals = <<>>
    /\ result = NoResult
    /\ exc = NoExc
    /\ out = <<>>

(* ------------------- validate_function_signature ---------------------- *)

\* The number of parameters the list comprehension keeps: those with no
\* default among the positional ones.
RequiredPositional(sig) == sig.req

\* TRUE when validate_function_signature raises its TypeError for sig.
ValidateRaises(sig) == ~(RequiredPositional(sig) # 1)

(* --------------------------- newton_raphson --------------------------- *)

\* An uncaught exception ends the call, and the script with it.
Raise(e) ==
    /\ pc' = "raised"
    /\ exc' = e
    /\ UNCHANGED <<result, out>>

\* A loop that runs once more than its budget.
LoopContinuesInclusive == it <= max_iter

\* The loop test of "for _ in range(max_iter)".
LoopContinues == it < max_iter

\* A step with the sign of the correction reversed.
NewtonStepReversed(yy, fyy, dfyy) == RAdd(yy, RDiv(fyy, dfyy))

\* The step of line 114 from y with the values fy and dfy.
NewtonStep(yy, fyy, dfyy) == RSub(yy, RDiv(fyy, dfyy))

\* The test of line 116.
Converged(e, t) == RLt(e, t)

\* The value newton_raphson returns passes through timefn's wrapper, which
\* prints the timing line, and then reaches the caller: the script's
\* assignment of line 156, or the direct caller.
ReturnFromNewton(v) ==
    /\ result' = v
    /\ pc' = IF entry = "main" THEN "main_156_assign" ELSE "returned"
    /\ UNCHANGED exc

\* Line 105.
NR_Init ==
    /\ pc = "nr_105"
    /\ y' = y0
    /\ pc' = "nr_106"
    /\ UNCHANGED <<inputs, y_new, err, fy, dfy, it, evals, result, exc, out>>

\* Line 106: the next value of the range, or the end of the loop.
NR_Loop ==
    /\ pc = "nr_106"
    /\ IF LoopContinues
         THEN /\ it' = it + 1
              /\ pc' = "nr_107"
         ELSE /\ pc' = "nr_120"
              /\ UNCHANGED it
    /\ UNCHANGED <<inputs, y, y_new, err, fy, dfy, evals, result, exc, out>>

\* An evaluation of f whose failure is caught: the solver goes on with 0.
NR_EvalF_Swallowed ==
    /\ pc = "nr_107"
    /\ LET o == CallOutcome(prob.f, sigF, y) IN
         /\ evals' = Append(evals, [fn |-> "f", at |-> y, ok |-> o.raises = "none"])
         /\ fy' = IF o.raises = "none" THEN o.value ELSE Zero
         /\ pc' = "nr_108"
    /\ UNCHANGED <<inputs, y, y_new, err, dfy, it, result, exc, out>>

\* Line 107: fy = f(y).
NR_EvalF ==
    /\ pc = "nr_107"
    /\ LET o == CallOutcome(prob.f, sigF, y) IN
         /\ evals' = Append(evals, [fn |-> "f", at |-> y, ok |-> o.raises = "none"])
         /\ IF o.raises = "none"
              THEN /\ fy' = o.value
                   /\ pc' = "nr_108"
                   /\ UNCHANGED <<result, exc, out>>
              ELSE /\ Raise(Exc(o.raises))
                   /\ UNCHANGED fy
    /\ UNCHANGED <<inputs, y, y_new, err, dfy, it>>

\* Line 108: dfy = df(y).
NR_EvalDf ==
    /\ pc = "nr_108"
    /\ LET o == CallOutcome(prob.df, sigDf, y) IN
         /\ evals' = Append(evals, [fn |-> "df", at |-> y, ok |-> o.raises = "none"])
         /\ IF o.raises = "none"
              THEN /\ dfy' = o.value
                   /\ pc' = "nr_110"
                   /\ UNCHANGED <<result, exc, out>>
              ELSE /\ Raise(Exc(o.raises))
                   /\ UNCHANGED dfy
    /\ UNCHANGED <<inputs, y, y_new, err, fy, it>>

\* Lines 110-112: a zero derivative warns and returns the bare y.
NR_ZeroCheck ==
    /\ pc = "nr_110"
    /\ IF dfy = Zero
         THEN /\ out' = out \o <<"warning", "timing">>
              /\ ReturnFromNewton(FloatValue(y))
         ELSE /\ pc' = "nr_114"
              /\ UNCHANGED <<result, exc, out>>
    /\ UNCHANGED <<inputs, locals, evals>>

\* Lines 114-118: the step, its size, and the return or the next iterate.
NR_Step ==
    /\ pc = "nr_114"
    /\ y_new' = NewtonStep(y, fy, dfy)
    /\ err' = RAbs(RSub(y_new', y))
    /\ IF Converged(err', tol)
         THEN /\ out' = Append(out, "timing")
              /\ ReturnFromNewton(TupleValue(y_new', err', (it - 1) + 1))
              /\ UNCHANGED y
         ELSE /\ y' = y_new'
              /\ pc' = "nr_106"
              /\ UNCHANGED <<result, exc, out>>
    /\ UNCHANGED <<inputs, fy, dfy, it, evals>>

\* Line 120: the f-string reads y_new, which no iteration has bound when
\* max_iter is 0; otherwise line 118 has made y equal to it.
NR_Raise ==
    /\ pc = "nr_120"
    /\ IF y_new = Unbound
         THEN Raise(Exc("UnboundLocalError"))
         ELSE Raise([kind |-> "RuntimeError", iters |-> max_iter,
                     prec |-> RAbs(RSub(y_new, y))])
    /\ UNCHANGED <<inputs, locals, evals>>

(* ------------------------ the unfinished solvers ---------------------- *)

\* Line 124: the body is "pass"; the three positional arguments of the test
\* script's call (f, -4, 4/3) bind to f, df and y0.
BrentDekker ==
    /\ pc = "bd_124"
    /\ result' = NoneValue
    /\ pc' = "returned"
    /\ UNCHANGED <<inputs, locals, evals, exc, out>>

\* Line 128.
Secant ==
    /\ pc = "sec_128"
    /\ result' = NoneValue
    /\ pc' = "returned"
    /\ UNCHANGED <<inputs, locals, evals, exc, out>>

\* Lines 131-132: the signature has no bracket parameter, so a call that
\* passes one does not bind; any other call runs "pass".
FullInversion ==
    /\ pc = "fi_132"
    /\ IF bracketArg
         THEN Raise(Exc("TypeError"))
         ELSE /\ result' = NoneValue
              /\ pc' = "returned"
              /\ UNCHANGED <<exc, out>>
    /\ UNCHANGED <<inputs, locals, evals>>

\* A direct call validate_function_signature(f, 'f').
ValidateDirect ==
    /\ pc = "vfs_78"
    /\ IF ValidateRaises(sigF)
         THEN Raise(Exc("TypeError"))
         ELSE /\ result' = NoneValue
              /\ pc' = "returned"
              /\ UNCHANGED <<exc, out>>
    /\ UNCHANGED <<inputs, locals, evals>>

(* ----------------------------- the script ----------------------------- *)

\* Line 146: safe_load_module_from_path.
MainLoad ==
    /\ pc = "main_146"
    /\ IF ~file.exists
         THEN Raise(Exc("FileNotFoundError"))
         ELSE /\ pc' = "main_148"
              /\ UNCHANGED <<result, exc, out>>
    /\ UNCHANGED <<inputs, locals, evals>>

\* Lines 148-151.
MainCheckDefined ==
    /\ pc = "main_148"
    /\ IF "f" \notin file.defines \/ "df" \notin file.defines
         THEN Raise(Exc("AttributeError"))
         ELSE /\ pc' = "main_153"
              /\ UNCHANGED <<result, exc, out>>
    /\ UNCHANGED <<inputs, locals, evals>>

\* Line 153.
MainValidateF ==
    /\ pc = "main_153"
    /\ IF ValidateRaises(sigF)
         THEN Raise(Exc("TypeError"))
         ELSE /\ pc' = "main_154"
              /\ UNCHANGED <<result, exc, out>>
    /\ UNCHANGED <<inputs, locals, evals>>

\* Line 154.
MainValidateDf ==
    /\ pc = "main_154"
    /\ IF ValidateRaises(sigDf)
         THEN Raise(Exc("TypeError"))
         ELSE /\ pc' = "nr_105"
              /\ UNCHANGED <<result, exc, out>>
    /\ UNCHANGED <<inputs, locals, evals>>

\* Lines 156-157: the returned value is unpacked into three names and
\* printed; a bare float does not unpack.
MainUnpack ==
    /\ pc = "main_156_assign"
    /\ IF result.kind = "tuple"
         THEN /\ out' = Append(out, "root")
              /\ pc' = "exited"
              /\ UNCHANGED <<result, exc>>
         ELSE Raise(Exc("TypeError"))
    /\ UNCHANGED <<inputs, locals, evals>>

Done == pc \in {"returned", "raised", "exited"}

Next ==
    \/ NR_Init
    \/ NR_Loop
    \/ NR_EvalF
    \/ NR_EvalDf
    \/ NR_ZeroCheck
    \/ NR_Step
    \/ NR_Raise
    \/ BrentDekker
    \/ Secant
    \/ FullInversion
    \/ ValidateDirect
    \/ MainLoad
    \/ MainCheckDefined
    \/ MainValidateF
    \/ MainValidateDf
    \/ MainUnpack

Spec == Init /\ [][Next]_vars

\* Python runs a call to its end: every step that can be taken is taken.
LiveSpec == Spec /\ WF_vars(Next)

(* ------------------------ auxiliary definitions ----------------------- *)

IsNewton == entry = "newton_raphson"

AllEvalsOk == \A i \in 1 .. Len(evals) : evals[i].ok

\* The sign of a rational: -1, 0 or 1.
Sign(p) == IF p[1] < 0 THEN -1 ELSE IF p[1] = 0 THEN 0 ELSE 1

\* The endpoints of the bracket have f-values of opposite sign.
ValidBracket(p) ==
    Sign(PolyEval(p.f.coef, p.bracket[1])) * Sign(PolyEval(p.f.coef, p.bracket[2])) = -1

InBracket(r, br) == r # Unbound /\ RLe(br[1], r) /\ RLe(r, br[2])

\* The Newton iterates of the mathematical definition: y_0 = y0 and
\* y_k = y_(k-1) - f(y_(k-1)) / df(y_(k-1)).
RECURSIVE Iterate(_)
Iterate(k) ==
    IF k = 0 THEN y0
    ELSE Only({ RSub(p, RDiv(PolyEval(prob.f.coef, p), PolyEval(prob.df.coef, p)))
                : p \in {Iterate(k - 1)} })

\* |y_k - y_(k-1)|.
StepSize(k) == RAbs(RSub(Iterate(k), Iterate(k - 1)))

\* f and df both return at y_0 .. y_(k-1), and df is not zero there.
RECURSIVE DefinedUpTo(_)
DefinedUpTo(k) ==
    \/ k = 0
    \/ /\ DefinedUpTo(k - 1)
       /\ CallOutcome(prob.f, sigF, Iterate(k - 1)).raises = "none"
       /\ CallOutcome(prob.df, sigDf, Iterate(k - 1)).raises = "none"
       /\ PolyEval(prob.df.coef, Iterate(k - 1)) # Zero

\* k is the first iteration whose step is smaller than tol.
FirstConverged(k) ==
    /\ DefinedUpTo(k)
    /\ RLt(StepSize(k), tol)
    /\ \A j \in 1 .. k - 1 : ~RLt(StepSize(j), tol)

(* ------------------------------- claims ------------------------------- *)

\* C1: whenever newton_raphson or full_inversion returns, what it returns
\* carries an iteration count of at most max_iter and an error strictly
\* smaller than tol.
C1_ReturnedWithinBudgetAndTol ==
    (entry \in {"newton_raphson", "full_inversion"} /\ pc = "returned") =>
        /\ result.kind = "tuple"
        /\ result.iters <= max_iter
        /\ RLt(result.err, tol)

\* C2: when the iteration budget (0 included) runs out with every evaluation
\* of f and df having returned, the call ends in the non-convergence error
\* (RuntimeError), which carries the iteration count and the size of the
\* last step taken.
C2_ExhaustionIsNonConvergence ==
    (IsNewton /\ pc = "raised" /\ AllEvalsOk) =>
        /\ exc.kind = "RuntimeError"
        /\ exc.iters = max_iter
        /\ exc.prec = err

\* C3: a Newton step at a zero derivative ends in a ZeroDerivative signal,
\* never in a value of the kind a success returns, and the caller goes on
\* without an error.
C3_ZeroDerivativeIsSignalled ==
    (dfy = Zero /\ pc \in {"returned", "raised", "exited"}) =>
        /\ result.kind = "ZeroDerivative"
        /\ exc.kind = "none"

\* C4: full_inversion called with a valid bracket ends by returning a root
\* that lies within the bracket.
C4_FullInversionStaysInBracket ==
    (entry = "full_inversion" /\ bracketArg /\ ValidBracket(prob)
        /\ pc \in {"returned", "raised"}) =>
        /\ pc = "returned"
        /\ result.kind \in {"float", "tuple"}
        /\ InBracket(result.root, prob.bracket)

\* C5: the point brent_dekker returns for a bracket with opposite-sign
\* f-values lies within the bracket.
C5_BrentDekkerPointInBracket ==
    (entry = "brent_dekker" /\ bracketArg /\ ValidBracket(prob) /\ pc = "returned") =>
        /\ result.kind = "float"
        /\ InBracket(result.root, prob.bracket)

\* C6: brent_dekker(f, -4, 4/3) for f(y) = (y+3)(y-1)^2 returns a number
\* within 1/100 of the sign-changing root -3, and not the double root 1.
C6_CubicSignChangingRoot ==
    (entry = "brent_dekker" /\ bracketArg /\ prob = Cubic /\ pc = "returned") =>
        /\ result.kind = "float"
        /\ RLt(RAbs(RSub(result.root, Int2Rat(-3))), Rat(1, 100))
        /\ result.root # Int2Rat(1)

\* C7: validate_function_signature returns for a function with exactly one
\* required positional argument and raises TypeError for every other one,
\* and the script reaches the solver when f and df both have exactly one.
C7_ValidateAcceptsExactlyOne ==
    /\ (entry = "validate_function_signature" /\ pc \in {"returned", "raised"}) =>
          ((pc = "returned") <=> (sigF.req = 1))
    /\ (entry = "main" /\ file = WellFormedFile /\ sigF.req = 1 /\ sigDf.req = 1
          /\ pc \in {"raised", "exited"}) => y # Unbound

\* C8: an evaluation of f or df that raises is the last evaluation made (no
\* later one, no second try), the call has ended with that very error, and
\* nothing was returned.
C8_FailedEvaluationEndsTheSolve ==
    \A i \in 1 .. Len(evals) :
        ~evals[i].ok =>
            /\ i = Len(evals)
            /\ pc = "raised"
            /\ exc = Exc(CallOutcome(prob[evals[i].fn],
                                     IF evals[i].fn = "f" THEN sigF ELSE sigDf,
                                     evals[i].at).raises)
            /\ result = NoResult

C10_TerminatesWithinBudget ==
    /\ [](/\ it <= max_iter
          /\ Len(evals) <= 2 * it
          /\ Len(evals) >= 2 * (it - 1)
          /\ \A i \in 1 .. Len(evals) :
                /\ evals[i].fn = (IF i % 2 = 1 THEN "f" ELSE "df")
                /\ evals[i].at = Iterate((i - 1) \div 2))
    /\ <>Done

(* ------------------------------ witnesses ----------------------------- *)

\* C8: f raised for the second iterate, after three evaluations that returned.
C8_Witness ==
    /\ pc = "raised"
    /\ exc.kind = "DomainError"
    /\ Len(evals) >= 3
    /\ ~evals[Len(evals)].ok

C10_Witness ==
    /\ IsNewton
    /\ pc = "raised"
    /\ max_iter >= 2
    /\ it = max_iter
    /\ Len(evals) = 2 * max_iter

====
